---- MODULE Spec2Model ----
(***************************************************************************)
(* The drive-thru ordering page (frontend/src/routes/+page.svelte): the    *)
(* page state, fetchOrders (run once by onMount), handleSubmit and         *)
(* processOrder, each split at its awaits, together with the backend the   *)
(* three requests talk to.                                                 *)
(***************************************************************************)
EXTENDS Integers, Sequences, FiniteSets, TLC

VARIABLES
    message,    \* let message (line 29): a sequence of characters
    history,    \* let history (line 30): sequence of mapped records
    totals,     \* let totals (line 31)
    loading,    \* let loading (line 32)
    error,      \* let error (line 33)
    pcFetch,    \* position of the fetchOrders call made by onMount
    ordersRes,  \* response of GET /orders, once the backend has produced it
    totalsRes,  \* response of GET /totals, once the backend has produced it
    pcSubmit,   \* position of the processOrder call
    postRes,    \* response of POST /process-order, once produced
    backend,    \* the backend's order log: the kinds of its records
    lastOp,     \* the handler step that ran last, with its outcome
    sent,       \* the requests issued by the step that ran last
    nPost       \* the number of POST /process-order requests issued so far

vars == <<message, history, totals, loading, error, pcFetch, ordersRes,
          totalsRes, pcSubmit, postRes, backend, lastOp, sent, nPost>>

page == <<message, history, totals, loading, error>>

----------------------------------------------------------------------------
(* Bounds *)

MaxRecords == 2     \* records the backend log may hold
MaxSubmits == 2     \* submits the page sends to the backend

----------------------------------------------------------------------------
(* JavaScript values *)

\* the value undefined; it differs from every string the model uses
undefined == "<undefined>"

\* obj.f: the field's value, undefined when the object has no such field
Get(obj, f) == IF f \in DOMAIN obj THEN obj[f] ELSE undefined

\* truthiness of a string-or-undefined value
Truthy(v) == v # undefined /\ v # ""

\* a || b
Or(a, b) == IF Truthy(a) THEN a ELSE b

\* the object {}
EmptyObj == [f \in {} |-> undefined]

IsSpace(c) == c = " "

RECURSIVE TrimStart(_)
TrimStart(s) ==
    IF s # <<>> /\ IsSpace(Head(s)) THEN TrimStart(Tail(s)) ELSE s

RECURSIVE TrimEnd(_)
TrimEnd(s) ==
    IF s # <<>> /\ IsSpace(s[Len(s)])
    THEN TrimEnd(SubSeq(s, 1, Len(s) - 1))
    ELSE s

\* message.trim()
Trim(s) == TrimEnd(TrimStart(s))

\* what the user types: nothing, white space, an order, a padded order
Messages == {<<>>, <<" ">>, <<"b">>, <<" ", "b", " ">>}

----------------------------------------------------------------------------
(* Error texts *)

FetchFailedText == "Failed to fetch data from server"
FetchOrdersFallback == "Failed to fetch orders"
ProcessFailedText == "Failed to process order"
\* messages of the errors the runtime throws
NetworkErrorText == "Failed to fetch"
SyntaxErrorText == "Unexpected token < in JSON at position 0"
TypeErrorText == "Cannot read properties of undefined (reading 'map')"
\* texts the backend supplies
DetailText == "Order not found"
DisplayText == "Sorry, I could not understand the order"
MessageText == "Invalid order"

Exception(msg) == [isError |-> TRUE, message |-> msg]

\* err instanceof Error ? err.message : fallback
ErrMessage(err, fallback) == IF err.isError THEN err.message ELSE fallback

----------------------------------------------------------------------------
(* The backend: POST /process-order places an order or cancels one; the    *)
(* log holds one record per order, a cancelled order's record turning into *)
(* a cancellation entry.                                                   *)

Kinds == {"order", "cancel", "cancel_bare"}

\* further shapes a record may take: display_message is optional on every
\* record, and a cancellation may keep its items
PanelKinds == Kinds \cup {"order_noted", "cancel_plain", "cancel_empty"}

NoteText == "Thanks for your order"

Timestamp == "2024-05-01T12:00:00"

CancelText(id) == "Order #" \o ToString(id) \o " cancelled"

\* the record the backend reports for order id
BackendRecord(kind, id) ==
    CASE kind = "order" ->
            [id |-> id, action_type |-> "order",
             items |-> <<[item_type |-> "burger", quantity |-> 1],
                         [item_type |-> "fries", quantity |-> 1]>>,
             timestamp |-> Timestamp]
      [] kind = "cancel" ->
            [id |-> id, action_type |-> "cancel", items |-> <<>>,
             timestamp |-> Timestamp, display_message |-> CancelText(id)]
      [] kind = "cancel_bare" ->
            [id |-> id, action_type |-> "cancel",
             display_message |-> CancelText(id)]
      [] kind = "order_noted" ->
            [id |-> id, action_type |-> "order",
             items |-> <<[item_type |-> "burger", quantity |-> 1],
                         [item_type |-> "fries", quantity |-> 1]>>,
             timestamp |-> Timestamp, display_message |-> NoteText]
      [] kind = "cancel_plain" ->
            [id |-> id, action_type |-> "cancel",
             items |-> <<[item_type |-> "drink", quantity |-> 2]>>,
             timestamp |-> Timestamp]
      [] kind = "cancel_empty" ->
            [id |-> id, action_type |-> "cancel",
             items |-> <<[item_type |-> "drink", quantity |-> 2]>>,
             timestamp |-> Timestamp, display_message |-> ""]

\* the body of GET /orders and the history of a submit response
BackendHistory(log) == [i \in 1..Len(log) |-> BackendRecord(log[i], i)]

Live(log) ==
    Cardinality({i \in 1..Len(log) : log[i] \in {"order", "order_noted"}})

\* the body of GET /totals and the totals of a submit response
BackendTotals(log) ==
    [burger |-> Live(log), fries |-> Live(log), drink |-> 0]

Logs == UNION {[1..n -> Kinds] : n \in 0..MaxRecords}

PanelLogs == UNION {[1..n -> PanelKinds] : n \in 0..MaxRecords}

\* the logs one POST can turn log into
NextLogs(log) ==
    {Append(log, "order") : n \in {Len(log)} \cap (0..MaxRecords - 1)}
    \cup {[log EXCEPT ![i] = k] :
            i \in {j \in 1..Len(log) : log[j] = "order"},
            k \in {"cancel", "cancel_bare"}}

NoRes == [kind |-> "none"]

Response(ok, body) == [kind |-> "res", ok |-> ok, parse |-> TRUE, body |-> body]

\* a response whose body is not JSON
BadBody(ok) == [kind |-> "res", ok |-> ok, parse |-> FALSE]

\* what GET /orders can answer
OrdersResponses(log) ==
    {Response(TRUE, BackendHistory(log)), Response(FALSE, EmptyObj), BadBody(TRUE)}

\* what GET /totals can answer
TotalsResponses(log) ==
    {Response(TRUE, BackendTotals(log)), Response(FALSE, EmptyObj), BadBody(TRUE)}

SuccessBody(log) ==
    [status |-> "ok", history |-> BackendHistory(log), totals |-> BackendTotals(log)]

\* the bodies of an application-level rejection
RejectionBodies ==
    {[status |-> "error", display_message |-> DisplayText, message |-> MessageText],
     [status |-> "error", display_message |-> DisplayText],
     [status |-> "error", message |-> MessageText],
     [status |-> "error"]}

\* the bodies of a non-2xx answer
FailureBodies == {[detail |-> DetailText], EmptyObj}

----------------------------------------------------------------------------
(* The history mapping (the same text at lines 47-55 and 101-109) *)

\* (item) => ({ itemType: item.item_type, quantity: item.quantity })
MapItem(it) ==
    [itemType |-> Get(it, "item_type"), quantity |-> Get(it, "quantity")]

\* item.items.map(...) throws a TypeError when item.items is undefined
MapThrows(r) == "items" \notin DOMAIN r

\* the mapping without ...item
MapRecordNoSpread(r) ==
    [actionType |-> Get(r, "action_type"),
     items |-> [i \in 1..Len(r.items) |-> MapItem(r.items[i])],
     display_message |-> Get(r, "display_message")]

\* (item) => ({ ...item, actionType, items, display_message })
MapRecord(r) ==
    [f \in DOMAIN r \cup {"actionType", "items", "display_message"} |->
        CASE f = "actionType" -> Get(r, "action_type")
          [] f = "items" -> [i \in 1..Len(r.items) |-> MapItem(r.items[i])]
          [] f = "display_message" -> Get(r, "display_message")
          [] OTHER -> r[f]]

HistoryThrows(h) == \E i \in 1..Len(h) : MapThrows(h[i])

MapHistory(h) == [i \in 1..Len(h) |-> MapRecord(h[i])]

----------------------------------------------------------------------------
(* The history panel *)

\* `${item.quantity} ${item.itemType}`
ItemText(it) == ToString(it.quantity) \o " " \o it.itemType

RECURSIVE Join(_)
\* items.map(...).join(', ')
Join(items) ==
    IF items = <<>> THEN ""
    ELSE IF Len(items) = 1 THEN ItemText(items[1])
    ELSE ItemText(items[1]) \o ", " \o Join(Tail(items))

\* the display message shown whenever there is one, whatever the action type
RenderEntryAnyMessage(item) ==
    [cancelled |-> item.actionType = "cancel",
     text |-> IF Truthy(item.display_message)
              THEN item.display_message
              ELSE Join(item.items)]

\* one entry of the {#each history as item} block
RenderEntry(item) ==
    [cancelled |-> item.actionType = "cancel",
     text |-> IF item.actionType = "cancel" /\ Truthy(item.display_message)
              THEN item.display_message
              ELSE Join(item.items)]

\* {#if error}: the banner is shown
BannerShown == Truthy(error)

----------------------------------------------------------------------------
(* Initial state: the component's script has run, onMount has not; the     *)
(* backend holds the orders of earlier sessions.                           *)

Init ==
    /\ message = <<>>
    /\ history = <<>>
    /\ totals = [burger |-> 0, fries |-> 0, drink |-> 0]
    /\ loading = FALSE
    /\ error = ""
    /\ pcFetch = "init"
    /\ ordersRes = NoRes
    /\ totalsRes = NoRes
    /\ pcSubmit = "idle"
    /\ postRes = NoRes
    /\ backend \in Logs
    /\ lastOp = "init"
    /\ sent = <<>>
    /\ nPost = 0

----------------------------------------------------------------------------
(* fetchOrders, lines 35-61 *)

\* onMount(fetchOrders): both GETs are issued, fetchOrders awaits Promise.all
Mount ==
    /\ UNCHANGED nPost
    /\ pcFetch = "init"
    /\ pcFetch' = "all"
    /\ sent' = <<"GET /orders", "GET /totals">>
    /\ lastOp' = "fetchOrders:start"
    /\ UNCHANGED <<page, ordersRes, totalsRes, pcSubmit, postRes, backend>>

\* the backend answers GET /orders from its current log
ServeOrders ==
    /\ UNCHANGED nPost
    /\ pcFetch = "all"
    /\ ordersRes = NoRes
    /\ \E r \in OrdersResponses(backend) : ordersRes' = r
    /\ UNCHANGED <<lastOp, sent>>
    /\ UNCHANGED <<page, pcFetch, totalsRes, pcSubmit, postRes, backend>>

\* the backend answers GET /totals from its current log
ServeTotals ==
    /\ UNCHANGED nPost
    /\ pcFetch = "all"
    /\ totalsRes = NoRes
    /\ \E r \in TotalsResponses(backend) : totalsRes' = r
    /\ UNCHANGED <<lastOp, sent>>
    /\ UNCHANGED <<page, pcFetch, ordersRes, pcSubmit, postRes, backend>>

\* the catch block of fetchOrders
FetchCatch(err, op) ==
    /\ error' = ErrMessage(err, FetchOrdersFallback)
    /\ pcFetch' = "done"
    /\ ordersRes' = NoRes
    /\ totalsRes' = NoRes
    /\ lastOp' = op

\* !ordersRes.ok
FetchNotOkOrdersOnly(o, t) == ~o.ok

\* !ordersRes.ok || !totalsRes.ok
FetchNotOk(o, t) == ~o.ok \/ ~t.ok

\* one of the two fetches rejects, so Promise.all rejects
FetchAllReject ==
    /\ UNCHANGED nPost
    /\ pcFetch = "all"
    /\ FetchCatch(Exception(NetworkErrorText), "fetchOrders:rejected")
    /\ sent' = <<>>
    /\ UNCHANGED <<message, history, totals, loading, pcSubmit, postRes, backend>>

\* both responses have arrived: Promise.all resolves, line 42 checks them
FetchAllResolve ==
    /\ UNCHANGED nPost
    /\ pcFetch = "all"
    /\ ordersRes # NoRes
    /\ totalsRes # NoRes
    /\ IF FetchNotOk(ordersRes, totalsRes)
       THEN /\ FetchCatch(Exception(FetchFailedText), "fetchOrders:not_ok")
            /\ UNCHANGED <<message, history, totals, loading>>
       ELSE /\ pcFetch' = "ordersJson"
            /\ lastOp' = "fetchOrders:resolved"
            /\ UNCHANGED <<page, ordersRes, totalsRes>>
    /\ sent' = <<>>
    /\ UNCHANGED <<pcSubmit, postRes, backend>>

\* await ordersRes.json() resumes: lines 46-55, up to the await of line 56
OrdersJson ==
    /\ UNCHANGED nPost
    /\ pcFetch = "ordersJson"
    /\ IF ~ordersRes.parse
       THEN /\ FetchCatch(Exception(SyntaxErrorText), "fetchOrders:orders_parse")
            /\ UNCHANGED history
       ELSE IF HistoryThrows(ordersRes.body)
       THEN /\ FetchCatch(Exception(TypeErrorText), "fetchOrders:map_threw")
            /\ UNCHANGED history
       ELSE /\ history' = MapHistory(ordersRes.body)
            /\ pcFetch' = "totalsJson"
            /\ lastOp' = "fetchOrders:history"
            /\ UNCHANGED <<error, ordersRes, totalsRes>>
    /\ sent' = <<>>
    /\ UNCHANGED <<message, totals, loading, pcSubmit, postRes, backend>>

\* line 56 with a guard: totals that the backend no longer reports are dropped
TotalsJsonDropsStale ==
    /\ UNCHANGED nPost
    /\ pcFetch = "totalsJson"
    /\ IF ~totalsRes.parse
       THEN /\ FetchCatch(Exception(SyntaxErrorText), "fetchOrders:totals_parse")
            /\ UNCHANGED totals
       ELSE /\ totals' = IF totalsRes.body = BackendTotals(backend)
                         THEN totalsRes.body
                         ELSE totals
            /\ pcFetch' = "done"
            /\ ordersRes' = NoRes
            /\ totalsRes' = NoRes
            /\ lastOp' = "fetchOrders:totals"
            /\ UNCHANGED error
    /\ sent' = <<>>
    /\ UNCHANGED <<message, history, loading, pcSubmit, postRes, backend>>

\* await totalsRes.json() resumes: line 56
TotalsJson ==
    /\ UNCHANGED nPost
    /\ pcFetch = "totalsJson"
    /\ IF ~totalsRes.parse
       THEN /\ FetchCatch(Exception(SyntaxErrorText), "fetchOrders:totals_parse")
            /\ UNCHANGED totals
       ELSE /\ totals' = totalsRes.body
            /\ pcFetch' = "done"
            /\ ordersRes' = NoRes
            /\ totalsRes' = NoRes
            /\ lastOp' = "fetchOrders:totals"
            /\ UNCHANGED error
    /\ sent' = <<>>
    /\ UNCHANGED <<message, history, loading, pcSubmit, postRes, backend>>

----------------------------------------------------------------------------
(* The order form, lines 155-165 *)

\* the input and the button without disabled={loading}
FormAlwaysEnabled == TRUE

\* disabled={loading} on the input and on the submit button
FormEnabled == ~loading

\* bind:value={message}: the user edits the input
Input(m) ==
    /\ UNCHANGED nPost
    /\ FormEnabled
    /\ m # message
    /\ message' = m
    /\ sent' = <<>>
    /\ lastOp' = "input"
    /\ UNCHANGED <<history, totals, loading, error, pcFetch, ordersRes,
                   totalsRes, pcSubmit, postRes, backend>>

----------------------------------------------------------------------------
(* handleSubmit, lines 63-71, and processOrder, lines 73-118 *)

\* !message
IsBlankUntrimmed(m) == m = <<>>

\* !message.trim()
IsBlank(m) == Trim(m) = <<>>

\* the form's submit event: handleSubmit, and processOrder up to its first await
HandleSubmit ==
    /\ FormEnabled
    /\ IF IsBlank(message)
       THEN /\ lastOp' = "handleSubmit:blank"
            /\ sent' = <<>>
            /\ UNCHANGED <<loading, error, pcSubmit, nPost>>
       ELSE /\ nPost < MaxSubmits
            /\ nPost' = nPost + 1
            /\ loading' = TRUE
            /\ error' = ""
            /\ pcSubmit' = "fetch"
            /\ sent' = <<"POST /process-order">>
            /\ lastOp' = "processOrder:start"
    /\ UNCHANGED <<message, history, totals, pcFetch, ordersRes, totalsRes,
                   postRes, backend>>

\* loading = false as the last statement of the try block
LoadingAfterTryOnly(outcome) == outcome # "completed"

\* loading = false after the try statement, which the return of line 98 skips
LoadingAfterStatement(outcome) == outcome = "returned"

\* the value of loading once the finally block has run (line 116)
LoadingAfter(outcome) == FALSE

\* a catch block that sends the request again
SubmitCatchRetries(err, op) ==
    /\ pcSubmit' = "fetch"
    /\ postRes' = NoRes
    /\ lastOp' = op
    /\ UNCHANGED <<message, history, totals, loading, error>>

\* a catch block that also clears the input
SubmitCatchClears(err, op) ==
    /\ error' = ErrMessage(err, ProcessFailedText)
    /\ loading' = LoadingAfter("thrown")
    /\ pcSubmit' = "idle"
    /\ postRes' = NoRes
    /\ lastOp' = op
    /\ message' = <<>>
    /\ UNCHANGED <<history, totals>>

\* the catch block of processOrder, then its finally block
SubmitCatch(err, op) ==
    /\ error' = ErrMessage(err, ProcessFailedText)
    /\ loading' = LoadingAfter("thrown")
    /\ pcSubmit' = "idle"
    /\ postRes' = NoRes
    /\ lastOp' = op
    /\ UNCHANGED <<message, history, totals>>

\* the fetch of line 80 rejects: transport failure, the request or its
\* answer being lost
PostReject ==
    /\ UNCHANGED nPost
    /\ pcSubmit = "fetch"
    /\ SubmitCatch(Exception(NetworkErrorText), "processOrder:rejected")
    /\ backend' \in {backend} \cup NextLogs(backend)
    /\ sent' = <<>>
    /\ UNCHANGED <<pcFetch, ordersRes, totalsRes>>

\* what POST /process-order can answer, with the log it leaves behind: the
\* backend places or cancels an order and answers with the new history and
\* totals, or it rejects the message
PostResponses(log) ==
    {[log |-> l, res |-> Response(TRUE, SuccessBody(l))] : l \in NextLogs(log)}
    \cup {[log |-> log, res |-> Response(TRUE, body)] : body \in RejectionBodies}
    \cup {[log |-> log, res |-> Response(FALSE, body)] : body \in FailureBodies}
    \cup {[log |-> log, res |-> BadBody(ok)] : ok \in BOOLEAN}

\* the backend answers the POST and the fetch of line 80 resolves;
\* processOrder awaits response.json()
PostResolve ==
    /\ UNCHANGED nPost
    /\ pcSubmit = "fetch"
    /\ \E a \in PostResponses(backend) :
        /\ backend' = a.log
        /\ postRes' = a.res
    /\ pcSubmit' = "json"
    /\ sent' = <<>>
    /\ lastOp' = "processOrder:resolved"
    /\ UNCHANGED <<page, pcFetch, ordersRes, totalsRes>>

\* 'Failed to process order', whatever the body says
HttpErrorTextFixed(data) == ProcessFailedText

\* data.detail || 'Failed to process order'
HttpErrorText(data) == Or(Get(data, "detail"), ProcessFailedText)

\* data.display_message || data.message
RejectionText(data) == Or(Get(data, "display_message"), Get(data, "message"))

\* data.history.map(...) throws
ResponseThrows(data) ==
    IF "history" \in DOMAIN data THEN HistoryThrows(data.history) ELSE TRUE

\* await response.json() resumes: lines 89-117
PostJson ==
    /\ UNCHANGED nPost
    /\ pcSubmit = "json"
    /\ IF ~postRes.parse
       THEN SubmitCatch(Exception(SyntaxErrorText), "processOrder:parse")
       ELSE IF ~postRes.ok
       THEN SubmitCatch(Exception(HttpErrorText(postRes.body)), "processOrder:http_error")
       ELSE IF Get(postRes.body, "status") = "error"
       THEN /\ error' = RejectionText(postRes.body)
            /\ loading' = LoadingAfter("returned")
            /\ pcSubmit' = "idle"
            /\ postRes' = NoRes
            /\ lastOp' = "processOrder:rejection"
            /\ UNCHANGED <<message, history, totals>>
       ELSE IF ResponseThrows(postRes.body)
       THEN SubmitCatch(Exception(TypeErrorText), "processOrder:map_threw")
       ELSE /\ history' = MapHistory(postRes.body.history)
            /\ totals' = postRes.body.totals
            /\ message' = <<>>
            /\ loading' = LoadingAfter("completed")
            /\ pcSubmit' = "idle"
            /\ postRes' = NoRes
            /\ lastOp' = "processOrder:success"
            /\ UNCHANGED error
    /\ sent' = <<>>
    /\ UNCHANGED <<pcFetch, ordersRes, totalsRes, backend>>

----------------------------------------------------------------------------

Next ==
    \/ Mount
    \/ ServeOrders
    \/ ServeTotals
    \/ FetchAllReject
    \/ FetchAllResolve
    \/ OrdersJson
    \/ TotalsJson
    \/ \E m \in Messages : Input(m)
    \/ HandleSubmit
    \/ PostReject
    \/ PostResolve
    \/ PostJson

Spec == Init /\ [][Next]_vars

\* the network answers every request, and a resumed handler runs on
FairSpec ==
    /\ Spec
    /\ WF_vars(PostResolve)
    /\ WF_vars(PostJson)

\* the page is loaded and left alone: fetchOrders runs against a backend
\* whose log holds records of every shape
LoadInit ==
    /\ message = <<>>
    /\ history = <<>>
    /\ totals = [burger |-> 0, fries |-> 0, drink |-> 0]
    /\ loading = FALSE
    /\ error = ""
    /\ pcFetch = "init"
    /\ ordersRes = NoRes
    /\ totalsRes = NoRes
    /\ pcSubmit = "idle"
    /\ postRes = NoRes
    /\ backend \in PanelLogs
    /\ lastOp = "init"
    /\ sent = <<>>
    /\ nPost = 0

LoadNext ==
    \/ Mount
    \/ ServeOrders
    \/ ServeTotals
    \/ FetchAllReject
    \/ FetchAllResolve
    \/ OrdersJson
    \/ TotalsJson

LoadSpec == LoadInit /\ [][LoadNext]_vars

TypeOK ==
    /\ message \in Messages
    /\ loading \in BOOLEAN
    /\ pcFetch \in {"init", "all", "ordersJson", "totalsJson", "done"}
    /\ pcSubmit \in {"idle", "fetch", "json"}
    /\ backend \in Logs
    /\ nPost \in 0..MaxSubmits

----------------------------------------------------------------------------
(* Properties *)

ZeroTotals == [burger |-> 0, fries |-> 0, drink |-> 0]

\* a submit is in flight: processOrder has started and has not finished with
\* its response
InFlight == pcSubmit \in {"fetch", "json"}

\* the step in which processOrder finishes with the response it received
SubmitAnswered == pcSubmit = "json" /\ pcSubmit' = "idle"

\* the response in hand is 2xx and its status is not "error"
SuccessfulResponse ==
    /\ postRes.parse
    /\ postRes.ok
    /\ Get(postRes.body, "status") # "error"

\* C1: every submit that enters Submitting leaves it with loading = false
\* once the POST resolves or rejects, on every outcome path, and loading is
\* never true with no submit in flight.
C1_GuaranteedRelease ==
    /\ [](loading => InFlight)
    /\ (loading = TRUE) ~> (loading = FALSE)

\* a submit whose response could not be mapped has ended, the form enabled
C1_Witness ==
    /\ lastOp = "processOrder:map_threw"
    /\ loading = FALSE
    /\ pcSubmit = "idle"

\* C2: loading is true exactly while a submit is in flight, on all paths,
\* and no step of the mount-time fetchOrders changes loading.
C2_LoadingIffInFlight ==
    /\ [](loading <=> InFlight)
    /\ [][pcFetch' # pcFetch => loading' = loading]_vars

\* a submit is in flight while fetchOrders is between its two body reads
C2_Witness ==
    /\ loading = TRUE
    /\ pcSubmit = "json"
    /\ pcFetch = "totalsJson"

\* C3: in every state, history and totals are those of one backend snapshot
\* (or the initial empty/zero pair).
C3_OneSnapshot ==
    \/ history = <<>> /\ totals = ZeroTotals
    \/ \E log \in Logs :
        /\ ~HistoryThrows(BackendHistory(log))
        /\ history = MapHistory(BackendHistory(log))
        /\ totals = BackendTotals(log)

\* C4: when a submit with a successful response returns to Idle, history is
\* the response's history entry by entry, totals are the response's totals
\* and message is empty.
C4_SuccessReplaces ==
    [][(SubmitAnswered /\ SuccessfulResponse) =>
        LET h == postRes.body.history IN
        /\ Len(history') = Len(h)
        /\ \A i \in 1..Len(h) :
            /\ i \in DOMAIN history'
            /\ history'[i].id = h[i].id
            /\ history'[i].actionType = h[i].action_type
            /\ history'[i].display_message = Get(h[i], "display_message")
            /\ ~MapThrows(h[i]) => history'[i] = MapRecord(h[i])
        /\ totals' = postRes.body.totals
        /\ message' = <<>>]_vars

\* C5: a submit event with an empty or whitespace-only message issues no
\* request and leaves error, loading, history, totals and message unchanged.
C5_BlankSubmitNoOp ==
    [][(lastOp' \in {"handleSubmit:blank", "processOrder:start"}
          /\ Trim(message) = <<>>) =>
        /\ sent' = <<>>
        /\ nPost' = nPost
        /\ pcSubmit' = pcSubmit
        /\ UNCHANGED <<error, loading, history, totals, message>>]_vars

\* a whitespace-only message was submitted while an error was displayed
C5_Witness ==
    /\ lastOp = "handleSubmit:blank"
    /\ message = <<" ">>
    /\ error = FetchFailedText
    /\ BannerShown

\* C6: on a non-2xx response, error becomes the body's detail when it
\* carries one and a generic failure text otherwise (the fixed text for a
\* JSON body, the parser's text for a body that is not JSON), and history
\* and totals are left as they were.
C6_HttpError ==
    [][(SubmitAnswered /\ ~postRes.ok) =>
        /\ error' = (IF ~postRes.parse THEN SyntaxErrorText
                     ELSE IF Truthy(Get(postRes.body, "detail"))
                     THEN postRes.body.detail
                     ELSE ProcessFailedText)
        /\ history' = history
        /\ totals' = totals]_vars

\* the backend's detail is displayed after a non-2xx answer
C6_Witness ==
    /\ lastOp = "processOrder:http_error"
    /\ error = DetailText
    /\ history # <<>>

\* C7: on a response with status "error", error becomes the display message
\* if present and is a non-empty string in every case, and history and
\* totals are left as they were.
C7_RejectionShown ==
    [][(SubmitAnswered /\ postRes.parse /\ postRes.ok
          /\ Get(postRes.body, "status") = "error") =>
        /\ Truthy(Get(postRes.body, "display_message"))
              => error' = postRes.body.display_message
        /\ Truthy(error')
        /\ history' = history
        /\ totals' = totals]_vars

\* C8: fetchOrders writes history or totals only after both responses have
\* arrived and both are ok; when either request rejects or either response
\* is not ok it only sets error.
C8_BothOrNeither ==
    [][pcFetch' # pcFetch =>
        /\ (history' # history \/ totals' # totals) =>
              /\ ordersRes # NoRes /\ totalsRes # NoRes
              /\ ordersRes.ok /\ totalsRes.ok
        /\ pcFetch = "all" =>
              /\ UNCHANGED <<history, totals, message, loading>>
              /\ pcFetch' = "ordersJson" =>
                    /\ ordersRes # NoRes /\ totalsRes # NoRes
                    /\ ordersRes.ok /\ totalsRes.ok
                    /\ error' = error
              /\ pcFetch' = "done" =>
                    error' \in {FetchFailedText, NetworkErrorText}]_vars

\* GET /totals was not ok: only error is set
C8_Witness ==
    /\ lastOp = "fetchOrders:not_ok"
    /\ pcFetch = "done"
    /\ error = FetchFailedText
    /\ history = <<>>
    /\ totals = ZeroTotals
    /\ backend # <<>>

\* the records of a response the mapping is applied to
RecordsOf(res, body) ==
    IF res.kind = "res" /\ res.parse /\ res.ok
    THEN {body[i] : i \in 1..Len(body)}
    ELSE {}

\* the backend records in hand
InputRecords ==
    RecordsOf(ordersRes, Get(ordersRes, "body"))
    \cup (IF postRes.kind = "res" /\ postRes.parse /\ "history" \in DOMAIN postRes.body
          THEN RecordsOf(postRes, postRes.body.history)
          ELSE {})

ScenarioEntry ==
    [id |-> 2, action_type |-> "cancel", display_message |-> "Order #2 cancelled"]

\* C10: a submit whose successful response holds the scenario's entry ends
\* in success with the entry in history, no error, and the entry rendered as
\* a cancellation showing "Order #2 cancelled".
C10_CancelScenario ==
    [][(SubmitAnswered /\ SuccessfulResponse
          /\ \E i \in 1..Len(postRes.body.history) :
                postRes.body.history[i] = ScenarioEntry) =>
        /\ lastOp' = "processOrder:success"
        /\ error' = ""
        /\ \E j \in 1..Len(history') :
              /\ history'[j].id = 2
              /\ RenderEntry(history'[j]) =
                    [cancelled |-> TRUE, text |-> "Order #2 cancelled"]]_vars

\* the text of an item list, written out for the lists a record can hold
ListText(items) ==
    CASE Len(items) = 0 -> ""
      [] Len(items) = 1 ->
            ToString(items[1].quantity) \o " " \o items[1].itemType
      [] Len(items) = 2 ->
            ToString(items[1].quantity) \o " " \o items[1].itemType \o ", "
            \o ToString(items[2].quantity) \o " " \o items[2].itemType

\* C11: an entry shows its display message instead of the item list exactly
\* when it is a cancellation with a non-empty display message, shows
\* "quantity itemType" joined by ", " otherwise, and is marked as a
\* cancellation exactly when actionType is "cancel".
C11_PanelEntry ==
    \A i \in 1..Len(history) :
        LET e == history[i]
            r == RenderEntry(e)
            showsMessage ==
                /\ e.actionType = "cancel"
                /\ e.display_message \notin {undefined, ""}
        IN  /\ r.cancelled <=> e.actionType = "cancel"
            /\ showsMessage => r.text = e.display_message
            /\ ~showsMessage => r.text = ListText(e.items)

\* the panel shows an order that carries a display message by its items and
\* a cancellation without display message by its items
C11_Witness ==
    /\ lastOp = "fetchOrders:totals"
    /\ Len(history) = 2
    /\ history[1].actionType = "order"
    /\ history[1].display_message = NoteText
    /\ RenderEntry(history[1]) = [cancelled |-> FALSE, text |-> "1 burger, 1 fries"]
    /\ history[2].actionType = "cancel"
    /\ history[2].display_message = undefined
    /\ RenderEntry(history[2]) = [cancelled |-> TRUE, text |-> "2 drink"]

\* C12: with submit events delivered only while the form is enabled, a POST
\* is issued only when loading is false and no processOrder is in flight, so
\* at most one POST is in flight and a second processOrder starts only after
\* the first has set loading = false.
C12_Serialized ==
    [][nPost' # nPost =>
        /\ nPost' = nPost + 1
        /\ loading = FALSE
        /\ pcSubmit = "idle"
        /\ postRes = NoRes
        /\ loading' = TRUE
        /\ pcSubmit' = "fetch"]_vars

\* a second processOrder has started after the first one ended
C12_Witness ==
    /\ nPost = 2
    /\ lastOp = "processOrder:start"
    /\ loading = TRUE
    /\ pcSubmit = "fetch"

\* C13: fetchOrders writes the bodies it received whatever has happened since
\* they were produced, so responses produced before a submit was processed
\* can land after that submit's success and put the older snapshot on the
\* page.
C13_ResponsesLand ==
    [][pcFetch' # pcFetch =>
        /\ (pcFetch = "ordersJson" /\ ordersRes.parse
              /\ ~HistoryThrows(ordersRes.body))
              => history' = MapHistory(ordersRes.body)
        /\ (pcFetch = "totalsJson" /\ totalsRes.parse)
              => totals' = totalsRes.body]_vars

\* the last submit succeeded (nothing has set error since it cleared it) and
\* fetchOrders has since replaced its history and totals by those of an
\* older backend log
C13_Witness ==
    /\ lastOp = "fetchOrders:totals"
    /\ pcFetch = "done"
    /\ pcSubmit = "idle"
    /\ nPost >= 1
    /\ error = ""
    /\ ~HistoryThrows(BackendHistory(backend))
    /\ history # MapHistory(BackendHistory(backend))
    /\ totals # BackendTotals(backend)
    /\ \E old \in Logs :
          /\ ~HistoryThrows(BackendHistory(old))
          /\ history = MapHistory(BackendHistory(old))
          /\ totals = BackendTotals(old)

\* C14: a POST goes out only in the step of an accepted (non-blank) submit,
\* one per submit; the two GETs go out only in the mount step, once; no step
\* in which a call ends, failed or not, issues a request, and a finished
\* fetchOrders never starts again.
C14_SingleAttempt ==
    [][/\ nPost' \in {nPost, nPost + 1}
       /\ (pcSubmit' = "fetch" /\ pcSubmit # "fetch") =>
             /\ pcSubmit = "idle"
             /\ Trim(message) # <<>>
             /\ nPost' = nPost + 1
             /\ sent' = <<"POST /process-order">>
       /\ nPost' = nPost + 1 =>
             /\ pcSubmit' = "fetch"
             /\ sent' = <<"POST /process-order">>
       /\ (pcFetch' = "all" /\ pcFetch # "all") =>
             /\ pcFetch = "init"
             /\ sent' = <<"GET /orders", "GET /totals">>
       /\ pcFetch = "done" => pcFetch' = "done"
       /\ (pcSubmit # "idle" /\ pcSubmit' # pcSubmit) =>
             /\ sent' = <<>>
             /\ nPost' = nPost
       /\ (pcFetch # "init" /\ pcFetch' # pcFetch) => sent' = <<>>]_vars

\* the one submit so far failed in transport and nothing was sent again
C14_Witness ==
    /\ lastOp = "processOrder:rejected"
    /\ error = NetworkErrorText
    /\ nPost = 1
    /\ pcSubmit = "idle"
    /\ sent = <<>>
    /\ pcFetch = "done"

\* the response in hand is successful and its history can be mapped
SubmitSucceeds ==
    /\ SubmitAnswered
    /\ SuccessfulResponse
    /\ ~ResponseThrows(postRes.body)

\* C15: from the start of a submit to its end message keeps the submitted
\* (non-blank) text in every step, a failure of any tier included; only the
\* step that ends the submit in success changes it, to the empty string.
C15_MessageKept ==
    [][pcSubmit # "idle" =>
        IF SubmitSucceeds
        THEN message' = <<>>
        ELSE /\ message' = message
             /\ Trim(message') # <<>>]_vars

\* a submit ended on a non-2xx answer with the padded order still in the input
C15_Witness ==
    /\ lastOp = "processOrder:http_error"
    /\ pcSubmit = "idle"
    /\ error = DetailText
    /\ message = <<" ", "b", " ">>

\* C16: whenever a submit completes successfully, error is empty at that
\* moment, under every interleaving with the mount-time fetchOrders.
C16_SuccessNoBanner ==
    [][SubmitSucceeds => error' = ""]_vars

====
